---------------------------- MODULE Spec2Model ----------------------------
(***************************************************************************)
(* A model of slow-query-converter (src/src/main.rs): the line-by-line     *)
(* parser of a MariaDB slow query log and its CSV row writer.              *)
(*                                                                         *)
(* Text is modelled as TLA+ strings, read character by character with      *)
(* Len, SubSeq and \o.  The regular expressions of the program are data    *)
(* (sequences of items) interpreted by a backtracking matcher with the     *)
(* leftmost-first semantics of the regex crate.  The alphabet is ASCII.    *)
(***************************************************************************)
EXTENDS Integers, Sequences, FiniteSets, TLC

(***************************************************************************)
(* Characters and the string helpers of the Rust standard library.         *)
(***************************************************************************)
Ch(s, i) == SubSeq(s, i, i)

Digits == "0123456789"

LowerLetters == "abcdefghijklmnopqrstuvwxyz"

UpperLetters == "ABCDEFGHIJKLMNOPQRSTUVWXYZ"

DigitSet == {Ch(Digits, i) : i \in 1..10}

LetterSet == {Ch(LowerLetters, i) : i \in 1..26} \cup {Ch(UpperLetters, i) : i \in 1..26}

SpaceSet == {" ", "\t", "\n", "\r", "\f"}

\* TLA+ strings cannot hold the backquote character: the apostrophe stands
\* for it in every text of this model
Backquote == "'"

\* char::to_lowercase on ASCII letters, used for the (?i) flag
LowerOf ==
    [c \in LetterSet |->
        IF \E i \in 1..26 : Ch(UpperLetters, i) = c
        THEN Ch(LowerLetters, CHOOSE i \in 1..26 : Ch(UpperLetters, i) = c)
        ELSE c]

ToLower(c) == IF c \in LetterSet THEN LowerOf[c] ELSE c

\* the characters k.. of t are in s after offset j, letter case ignored
RECURSIVE SameFolded(_, _, _, _)
SameFolded(s, j, t, k) ==
    \/ k > Len(t)
    \/ /\ ToLower(Ch(s, j + k)) = ToLower(Ch(t, k))
       /\ SameFolded(s, j, t, k + 1)

\* membership of one character in a character class of the regex syntax
InClass(cls, c) ==
    CASE cls = "d"   -> c \in DigitSet                          \* \d
      [] cls = "d."  -> c \in DigitSet \cup {"."}               \* [\d.]
      [] cls = "s"   -> c \in SpaceSet                          \* \s
      [] cls = "S"   -> c \notin SpaceSet                       \* \S
      [] cls = "w"   -> c \in DigitSet \cup LetterSet \cup {"_"} \* \w
      [] cls = "."   -> c # "\n"                                \* .
      [] cls = "bq"  -> c = Backquote                           \* the backquote
      [] OTHER       -> FALSE

\* str::trim_start / trim_end / trim
RECURSIVE TrimStart(_)
TrimStart(s) ==
    IF s # "" /\ Ch(s, 1) \in SpaceSet THEN TrimStart(SubSeq(s, 2, Len(s))) ELSE s

RECURSIVE TrimEnd(_)
TrimEnd(s) ==
    IF s # "" /\ Ch(s, Len(s)) \in SpaceSet THEN TrimEnd(SubSeq(s, 1, Len(s) - 1)) ELSE s

Trim(s) == TrimEnd(TrimStart(s))

\* str::trim_matches(|c| c == '[' || c == ']' || c == ' ')
RECURSIVE TrimMatchesStart(_, _)
TrimMatchesStart(s, set) ==
    IF s # "" /\ Ch(s, 1) \in set THEN TrimMatchesStart(SubSeq(s, 2, Len(s)), set) ELSE s

RECURSIVE TrimMatchesEnd(_, _)
TrimMatchesEnd(s, set) ==
    IF s # "" /\ Ch(s, Len(s)) \in set THEN TrimMatchesEnd(SubSeq(s, 1, Len(s) - 1), set) ELSE s

TrimMatches(s, set) == TrimMatchesEnd(TrimMatchesStart(s, set), set)

\* str::split(c).next(): the text before the first occurrence of c
RECURSIVE SplitFirst(_, _)
SplitFirst(s, c) ==
    IF s = "" \/ Ch(s, 1) = c THEN ""
    ELSE Ch(s, 1) \o SplitFirst(SubSeq(s, 2, Len(s)), c)

\* str::starts_with
StartsWith(s, p) == Len(s) >= Len(p) /\ SubSeq(s, 1, Len(p)) = p

(***************************************************************************)
(* Regular expressions.  A pattern is a sequence of items:                 *)
(*   Lit(t)            the literal text t                                  *)
(*   LitI(t)           the literal text t under (?i)                       *)
(*   Rep(cls,lo,hi,g)  lo..hi characters of class cls (hi = -1: no limit), *)
(*                     greedy when g, lazy otherwise                       *)
(*   End               the anchor $                                        *)
(* A match is the sequence of offsets reached after each item, so the      *)
(* text of a capture group is the text between two consecutive offsets.    *)
(***************************************************************************)
Lit(t) == [k |-> "lit", t |-> t, ci |-> FALSE]

LitI(t) == [k |-> "lit", t |-> t, ci |-> TRUE]

Rep(cls, lo, hi, g) == [k |-> "rep", cls |-> cls, lo |-> lo, hi |-> hi, g |-> g]

End == [k |-> "end"]

NoMatch == [ok |-> FALSE, ends |-> <<>>]

\* the least element of a non-empty set of numbers
Least(set) == CHOOSE m \in set : \A k \in set : m <= k

\* number of consecutive characters of class cls in s after offset j
RECURSIVE Run(_, _, _)
Run(cls, s, j) ==
    IF j < Len(s) /\ InClass(cls, Ch(s, j + 1)) THEN 1 + Run(cls, s, j + 1) ELSE 0

RECURSIVE MatchFrom(_, _, _, _)
RECURSIVE TryCount(_, _, _, _, _, _)

\* item i of pat takes n characters at offset j; on failure of the rest,
\* backtrack to the next count in preference order (down when greedy, up
\* when lazy) until the count leaves lo..hi
TryCount(pat, s, i, j, n, hi) ==
    LET it == pat[i]
    IN  IF n < it.lo \/ n > hi THEN NoMatch
        ELSE LET rest == MatchFrom(pat, s, i + 1, j + n)
             IN  IF rest.ok THEN [ok |-> TRUE, ends |-> <<j + n>> \o rest.ends]
                 ELSE TryCount(pat, s, i, j, IF it.g THEN n - 1 ELSE n + 1, hi)

\* the preferred match of items i.. of pat in s at offset j
MatchFrom(pat, s, i, j) ==
    IF i > Len(pat) THEN [ok |-> TRUE, ends |-> <<>>]
    ELSE LET it == pat[i]
         IN  CASE it.k = "lit" ->
                    LET sub == SubSeq(s, j + 1, j + Len(it.t))
                        same == /\ j + Len(it.t) <= Len(s)
                                /\ IF it.ci THEN SameFolded(s, j, it.t, 1) ELSE sub = it.t
                    IN  IF ~same THEN NoMatch
                        ELSE LET rest == MatchFrom(pat, s, i + 1, j + Len(it.t))
                             IN  IF rest.ok
                                 THEN [ok |-> TRUE, ends |-> <<j + Len(it.t)>> \o rest.ends]
                                 ELSE NoMatch
               [] it.k = "end" ->
                    IF j # Len(s) THEN NoMatch
                    ELSE LET rest == MatchFrom(pat, s, i + 1, j)
                         IN  IF rest.ok THEN [ok |-> TRUE, ends |-> <<j>> \o rest.ends]
                             ELSE NoMatch
               [] it.k = "rep" ->
                    LET run == Run(it.cls, s, j)
                        hi  == IF it.hi = -1 \/ run < it.hi THEN run ELSE it.hi
                    IN  TryCount(pat, s, i, j, IF it.g THEN hi ELSE it.lo, hi)

\* Regex::captures / is_match for a pattern anchored with ^
MatchAt(pat, s) == MatchFrom(pat, s, 1, 0)

\* text of the capture group that is item i of the pattern
Cap(s, m, i) == SubSeq(s, (IF i = 1 THEN 0 ELSE m.ends[i - 1]) + 1, m.ends[i])

\* Regex::find for an unanchored pattern: the match at the leftmost offset
\* that has one, as [ok, start, end] with start and end as offsets
Find(pat, s) ==
    LET starts == {p \in 0..Len(s) : MatchFrom(pat, s, 1, p).ok}
    IN  IF starts = {} THEN [ok |-> FALSE, start |-> 0, end |-> 0]
        ELSE LET p == Least(starts)
             IN  [ok |-> TRUE, start |-> p, end |-> MatchFrom(pat, s, 1, p).ends[Len(pat)]]

(***************************************************************************)
(* The regular expressions of the program.                                 *)
(***************************************************************************)
Some(cls) == Rep(cls, 1, -1, TRUE)       \* cls+

Many(cls) == Rep(cls, 0, -1, TRUE)       \* cls*

\* ^# Time: (.*)
RE_TIME == <<Lit("# Time: "), Many(".")>>

\* ^# User@Host: (.*?) @\s*(.*)
RE_USER_HOST ==
    <<Lit("# User@Host: "), Rep(".", 0, -1, FALSE), Lit(" @"), Many("s"), Many(".")>>

\* ^# Thread_id: (\d+)\s+Schema: (.*?)\s+QC_hit: (\S+)
RE_METADATA_1 ==
    <<Lit("# Thread_id: "), Some("d"), Some("s"), Lit("Schema: "),
      Rep(".", 0, -1, FALSE), Some("s"), Lit("QC_hit: "), Some("S")>>

\* ^# Query_time: ([\d.]+)\s+Lock_time: ([\d.]+)\s+Rows_sent: (\d+)\s+Rows_examined: (\d+)
RE_METADATA_2 ==
    <<Lit("# Query_time: "), Some("d."), Some("s"), Lit("Lock_time: "), Some("d."),
      Some("s"), Lit("Rows_sent: "), Some("d"), Some("s"), Lit("Rows_examined: "),
      Some("d")>>

\* ^# Rows_affected: (\d+)\s+Bytes_sent: (\d+)
RE_METADATA_3 ==
    <<Lit("# Rows_affected: "), Some("d"), Some("s"), Lit("Bytes_sent: "), Some("d")>>

\* ^# Tmp_tables: (\d+)\s+Tmp_disk_tables: (\d+)\s+Tmp_table_sizes: (\d+)
RE_METADATA_4 ==
    <<Lit("# Tmp_tables: "), Some("d"), Some("s"), Lit("Tmp_disk_tables: "), Some("d"),
      Some("s"), Lit("Tmp_table_sizes: "), Some("d")>>

\* ^# Full_scan: (\S+)\s+Full_join: (\S+)\s+Tmp_table: (\S+)\s+Tmp_table_on_disk: (\S+)
RE_METADATA_5 ==
    <<Lit("# Full_scan: "), Some("S"), Some("s"), Lit("Full_join: "), Some("S"),
      Some("s"), Lit("Tmp_table: "), Some("S"), Some("s"), Lit("Tmp_table_on_disk: "),
      Some("S")>>

\* ^# Filesort: (\S+)\s+Filesort_on_disk: (\S+)\s+Merge_passes: (\d+)\s+Priority_queue: (\S+)
RE_METADATA_6 ==
    <<Lit("# Filesort: "), Some("S"), Some("s"), Lit("Filesort_on_disk: "), Some("S"),
      Some("s"), Lit("Merge_passes: "), Some("d"), Some("s"), Lit("Priority_queue: "),
      Some("S")>>

\* (?i)\s*SET timestamp=\d+;\s*
RE_SET_TIMESTAMP_EXTRACT ==
    <<Many("s"), LitI("SET timestamp="), Some("d"), LitI(";"), Many("s")>>

\* (?i)\s*use `?\w+`?;\s*
RE_USE_SCHEMA_EXTRACT ==
    <<Many("s"), LitI("use "), Rep("bq", 0, 1, TRUE), Some("w"), Rep("bq", 0, 1, TRUE),
      LitI(";"), Many("s")>>

\* started with:\s*$
RE_SKIPPED_1 == <<Lit("started with:"), Many("s"), End>>

\* ^((Tcp port:)|(Time\s+Id\s+Command)), one pattern per alternative
RE_SKIPPED_2 ==
    << <<Lit("Tcp port:")>>,
       <<Lit("Time"), Some("s"), Lit("Id"), Some("s"), Lit("Command")>> >>

(***************************************************************************)
(* Numbers.  A u64 or f64 field is held as the decimal text that           *)
(* to_string() gives for it, so that values up to 2^64 need no arithmetic. *)
(***************************************************************************)
DigitVal(c) == CHOOSE i \in 0..9 : Ch(Digits, i + 1) = c

\* the text without its leading zeros ("0" for zero)
RECURSIVE StripZeros(_)
StripZeros(s) ==
    IF Len(s) > 1 /\ Ch(s, 1) = "0" THEN StripZeros(SubSeq(s, 2, Len(s))) ELSE s

\* a <= b for digit texts of the same length
RECURSIVE DigitsLeq(_, _)
DigitsLeq(a, b) ==
    IF a = "" THEN TRUE
    ELSE IF Ch(a, 1) # Ch(b, 1) THEN DigitVal(Ch(a, 1)) < DigitVal(Ch(b, 1))
    ELSE DigitsLeq(SubSeq(a, 2, Len(a)), SubSeq(b, 2, Len(b)))

U64Max == "18446744073709551615"

\* str::parse::<u64>().unwrap_or(0).to_string() on a text matched by \d+
ParseU64(s) ==
    LET t == StripZeros(s)
    IN  IF Len(t) < Len(U64Max) \/ (Len(t) = Len(U64Max) /\ DigitsLeq(t, U64Max))
        THEN t ELSE "0"

RECURSIVE CountChar(_, _)
CountChar(s, c) ==
    IF s = "" THEN 0
    ELSE (IF Ch(s, 1) = c THEN 1 ELSE 0) + CountChar(SubSeq(s, 2, Len(s)), c)

\* the text without its trailing zeros
RECURSIVE StripTrailingZeros(_)
StripTrailingZeros(s) ==
    IF s # "" /\ Ch(s, Len(s)) = "0" THEN StripTrailingZeros(SubSeq(s, 1, Len(s) - 1))
    ELSE s

\* str::parse::<f64>().unwrap_or(0.0).to_string() on a text matched by
\* [\d.]+: the text parses when it has at most one point and one digit or
\* more; Display prints the shortest decimal, without exponent (exact for
\* texts of at most 15 significant digits)
ParseF64(s) ==
    IF CountChar(s, ".") > 1 \/ s = "." THEN "0"
    ELSE LET int  == SplitFirst(s, ".")
             frac == StripTrailingZeros(SubSeq(s, Len(int) + 2, Len(s)))
             ip   == IF int = "" THEN "0" ELSE StripZeros(int)
         IN  IF frac = "" THEN ip ELSE ip \o "." \o frac

(***************************************************************************)
(* format_log_time: "yymmdd H:M:S" to "yyyy-mm-dd HH:MM:SS".               *)
(***************************************************************************)
\* split_whitespace().collect().join(" ")
RECURSIVE JoinWords(_)
JoinWords(s) ==
    LET t == TrimStart(s)
        n == Run("S", t, 0)
        rest == TrimStart(SubSeq(t, n + 1, Len(t)))
    IN  IF t = "" THEN ""
        ELSE IF rest = "" THEN SubSeq(t, 1, n)
        ELSE SubSeq(t, 1, n) \o " " \o JoinWords(rest)

\* chrono numeric item of width 2: skip white space, then 1 or 2 digits
ScanNum(s, j) ==
    LET sp == Run("s", s, j)
        r  == Run("d", s, j + sp)
        n  == IF r > 2 THEN 2 ELSE r
        d1 == DigitVal(Ch(s, j + sp + 1))
    IN  IF n = 0 THEN [ok |-> FALSE, val |-> 0, next |-> j]
        ELSE [ok |-> TRUE,
              val |-> IF n = 1 THEN d1 ELSE 10 * d1 + DigitVal(Ch(s, j + sp + 2)),
              next |-> j + sp + n]

\* chrono literal item
ScanLit(s, j, c) == j < Len(s) /\ Ch(s, j + 1) = c

DaysIn(y, m) ==
    IF m = 2 THEN (IF y % 4 = 0 THEN 29 ELSE 28)
    ELSE IF m \in {4, 6, 9, 11} THEN 30 ELSE 31

Pad2(n) == Ch(Digits, (n \div 10) + 1) \o Ch(Digits, (n % 10) + 1)

Pad4(n) == Pad2(n \div 100) \o Pad2(n % 100)

\* the items of the format "%y%m%d %H:%M:%S"
TimeFormat == <<"y", "m", "d", " ", "H", ":", "M", ":", "S">>

RECURSIVE Parse(_, _, _)

\* the numeric item i of the format has scanned num
ParseNum(s, i, num) ==
    IF num.ok THEN <<num.val>> \o Parse(s, num.next, i + 1) ELSE <<-1>>

\* NaiveDateTime::parse_from_str: the items i.. of the format against s from
\* offset j on, as the numbers scanned; -1 ends the sequence at the first
\* item that does not match, and when text is left over at the end
Parse(s, j, i) ==
    IF i > Len(TimeFormat) THEN (IF j = Len(s) THEN <<>> ELSE <<-1>>)
    ELSE IF TimeFormat[i] = " " THEN Parse(s, j + Run("s", s, j), i + 1)
    ELSE IF TimeFormat[i] = ":"
         THEN (IF ScanLit(s, j, ":") THEN Parse(s, j + 1, i + 1) ELSE <<-1>>)
    ELSE ParseNum(s, i, ScanNum(s, j))

\* the date and time of the numbers v = <<yy, mm, dd, hh, mi, ss>>, printed
\* with "%Y-%m-%d %H:%M:%S" when they are in range
Resolve(v) ==
    IF /\ Len(v) = 6
       /\ \A k \in 1..6 : v[k] >= 0
       /\ v[2] \in 1..12
       /\ v[3] \in 1..DaysIn(v[1] + (IF v[1] < 70 THEN 2000 ELSE 1900), v[2])
       /\ v[4] \in 0..23 /\ v[5] \in 0..59 /\ v[6] \in 0..60
    THEN [ok |-> TRUE,
          text |-> Pad4(v[1] + (IF v[1] < 70 THEN 2000 ELSE 1900)) \o "-" \o Pad2(v[2])
                   \o "-" \o Pad2(v[3]) \o " " \o Pad2(v[4]) \o ":" \o Pad2(v[5])
                   \o ":" \o Pad2(v[6])]
    ELSE [ok |-> FALSE, text |-> ""]

format_log_time(log_time) == Resolve(Parse(JoinWords(log_time), 0, 1))

(***************************************************************************)
(* SlowQueryEntry and its methods.                                         *)
(***************************************************************************)
\* SlowQueryEntry::default(): empty strings and zero numbers
DefaultEntry ==
    [time |-> "", user |-> "", host |-> "", thread_id |-> "", schema |-> "",
     qc_hit |-> "", query_time |-> "0", lock_time |-> "0", rows_sent |-> "0",
     rows_examined |-> "0", rows_affected |-> "0", bytes_sent |-> "0", query |-> "",
     tmp_tables |-> "0", tmp_disk_tables |-> "0", tmp_table_sizes |-> "0",
     full_scan |-> "", full_join |-> "", tmp_table |-> "", tmp_table_on_disk |-> "",
     filesort |-> "", filesort_on_disk |-> "", merge_passes |-> "0",
     priority_queue |-> ""]

\* mutant of is_valid: every entry counts as valid
is_valid_always(e) == TRUE

is_valid(e) == e.thread_id # ""

\* mutant of Extract: the matched text is not trimmed
ExtractUntrimmed(mat, query) ==
    IF mat.ok THEN SubSeq(query, mat.start + 1, mat.end) ELSE ""

\* if let Some(mat) = re.find(query) { mat.as_str().trim() } else { "" }
Extract(mat, query) ==
    IF mat.ok THEN Trim(SubSeq(query, mat.start + 1, mat.end)) ELSE ""

\* if let Some(mat) = re.find(&q) { q = before + after }
Remove(mat, q) ==
    IF mat.ok THEN SubSeq(q, 1, mat.start) \o SubSeq(q, mat.end + 1, Len(q)) ELSE q

\* Step 3 of write_to_csv, second half: the use statement is looked for
\* again in the query without the SET statement, and cut out of that
RemoveUse(set_timestamp_str, use_schema_str, q) ==
    [set_timestamp_str |-> set_timestamp_str,
     use_schema_str |-> use_schema_str,
     remaining_query |-> Remove(Find(RE_USE_SCHEMA_EXTRACT, q), q)]

\* Steps 1 to 3 of write_to_csv, first half, given what the two patterns
\* find in the query as accumulated.  (The search that cuts the SET
\* statement runs on a copy of the query, so it finds what step 1 found.)
CleanupWith(query, set_mat, use_mat) ==
    RemoveUse(Extract(set_mat, query), Extract(use_mat, query), Remove(set_mat, query))

Cleanup(query) ==
    CleanupWith(query, Find(RE_SET_TIMESTAMP_EXTRACT, query),
                Find(RE_USE_SCHEMA_EXTRACT, query))

\* the header row written by main
HeaderRow ==
    <<"time", "user", "host", "thread_id", "schema", "qc_hit", "set_timestamp",
      "use_schema", "query", "query_time", "lock_time", "rows_sent", "rows_examined",
      "rows_affected", "bytes_sent", "tmp_tables", "tmp_disk_tables",
      "tmp_table_sizes", "full_scan", "full_join", "tmp_table", "tmp_table_on_disk",
      "filesort", "filesort_on_disk", "merge_passes", "priority_queue">>

\* the value of a row in the column called name
ColIndex ==
    [name \in {HeaderRow[i] : i \in 1..Len(HeaderRow)} |->
        CHOOSE i \in 1..Len(HeaderRow) : HeaderRow[i] = name]

Col(row, name) == row[ColIndex[name]]

(***************************************************************************)
(* The branches of the loop of main, as functions of the line.             *)
(***************************************************************************)
\* mutant of IsSkipped: no line is skipped
IsSkippedNever(line) == FALSE

IsSkipped(line) ==
    \/ Find(RE_SKIPPED_1, line).ok
    \/ \E a \in 1..Len(RE_SKIPPED_2) : MatchAt(RE_SKIPPED_2[a], line).ok

\* the branch of the if/else-if chain that a line takes
Kind(line) ==
    IF IsSkipped(line) THEN "skipped"
    ELSE IF MatchAt(RE_TIME, line).ok THEN "time"
    ELSE IF MatchAt(RE_USER_HOST, line).ok THEN "user_host"
    ELSE IF MatchAt(RE_METADATA_1, line).ok THEN "metadata_1"
    ELSE IF MatchAt(RE_METADATA_2, line).ok THEN "metadata_2"
    ELSE IF MatchAt(RE_METADATA_3, line).ok THEN "metadata_3"
    ELSE IF MatchAt(RE_METADATA_4, line).ok THEN "metadata_4"
    ELSE IF MatchAt(RE_METADATA_5, line).ok THEN "metadata_5"
    ELSE IF MatchAt(RE_METADATA_6, line).ok THEN "metadata_6"
    ELSE IF ~StartsWith(line, "#") /\ Trim(line) # "" THEN "query"
    ELSE "ignored"

\* mutant of UnwrapOr: a time that does not parse is dropped
UnwrapOrEmpty(fmt, raw_time) == IF fmt.ok THEN fmt.text ELSE ""

\* Option::unwrap_or_else(|| raw_time.to_string())
UnwrapOr(fmt, raw_time) == IF fmt.ok THEN fmt.text ELSE raw_time

\* mutant of TimeOf: the raw time is kept as it is
TimeOfRaw(line) == Trim(Cap(line, MatchAt(RE_TIME, line), 2))

\* last_seen_time after a time header
TimeOf(line) ==
    LET raw_time == Trim(Cap(line, MatchAt(RE_TIME, line), 2))
    IN  UnwrapOr(format_log_time(raw_time), raw_time)

\* The fields each branch assigns, as a record from field name to value.
UserHostOf(line) ==
    LET caps == MatchAt(RE_USER_HOST, line)
        user_full == Trim(Cap(line, caps, 2))
        host_full == Trim(Cap(line, caps, 5))
    IN  [user |-> SplitFirst(user_full, "["),
         host |-> TrimMatches(host_full, {"[", "]", " "})]

Metadata1(line) ==
    LET caps == MatchAt(RE_METADATA_1, line)
    IN  [thread_id |-> Cap(line, caps, 2),
         schema |-> Trim(Cap(line, caps, 5)),
         qc_hit |-> Trim(Cap(line, caps, 8))]

Metadata2(line) ==
    LET caps == MatchAt(RE_METADATA_2, line)
    IN  [query_time |-> ParseF64(Cap(line, caps, 2)),
         lock_time |-> ParseF64(Cap(line, caps, 5)),
         rows_sent |-> ParseU64(Cap(line, caps, 8)),
         rows_examined |-> ParseU64(Cap(line, caps, 11))]

Metadata3(line) ==
    LET caps == MatchAt(RE_METADATA_3, line)
    IN  [rows_affected |-> ParseU64(Cap(line, caps, 2)),
         bytes_sent |-> ParseU64(Cap(line, caps, 5))]

Metadata4(line) ==
    LET caps == MatchAt(RE_METADATA_4, line)
    IN  [tmp_tables |-> ParseU64(Cap(line, caps, 2)),
         tmp_disk_tables |-> ParseU64(Cap(line, caps, 5)),
         tmp_table_sizes |-> ParseU64(Cap(line, caps, 8))]

Metadata5(line) ==
    LET caps == MatchAt(RE_METADATA_5, line)
    IN  [full_scan |-> Trim(Cap(line, caps, 2)),
         full_join |-> Trim(Cap(line, caps, 5)),
         tmp_table |-> Trim(Cap(line, caps, 8)),
         tmp_table_on_disk |-> Trim(Cap(line, caps, 11))]

Metadata6(line) ==
    LET caps == MatchAt(RE_METADATA_6, line)
    IN  [filesort |-> Trim(Cap(line, caps, 2)),
         filesort_on_disk |-> Trim(Cap(line, caps, 5)),
         merge_passes |-> ParseU64(Cap(line, caps, 8)),
         priority_queue |-> Trim(Cap(line, caps, 11))]

\* the fields a line assigns in the branch it takes
Fields(kind, line) ==
    CASE kind = "user_host"  -> UserHostOf(line)
      [] kind = "metadata_1" -> Metadata1(line)
      [] kind = "metadata_2" -> Metadata2(line)
      [] kind = "metadata_3" -> Metadata3(line)
      [] kind = "metadata_4" -> Metadata4(line)
      [] kind = "metadata_5" -> Metadata5(line)
      [] kind = "metadata_6" -> Metadata6(line)
      [] OTHER               -> <<>>

AssignedBy(line) == Fields(Kind(line), line)

\* entry e after the assignments a
Assign(e, a) == [f \in DOMAIN e |-> IF f \in DOMAIN a THEN a[f] ELSE e[f]]

\* mutant of NewEntry: the sticky time is not copied
NewEntryWithoutTime(time) == DefaultEntry

\* SlowQueryEntry { time: last_seen_time.clone(), ..Default::default() }
NewEntry(time) == [DefaultEntry EXCEPT !.time = time]

\* query.push_str(&line); query.push('\n')
PushQuery(e, line) == [e EXCEPT !.query = e.query \o line \o "\n"]

(***************************************************************************)
(* The input.  The reader yields the lines of the file one at a time; the  *)
(* file is either the scenario of the specification, or any sequence of at *)
(* most MaxLines lines of CoreLines and AuxLines, of which at most MaxAux  *)
(* are lines of AuxLines, or any sequence of at most MaxLines lines of     *)
(* TimesLines (time headers of several forms and the start of a record).   *)
(***************************************************************************)
MaxLines == 4

MaxAux == 1

L_TIME == "# Time: 230101 10:00:00"

L_USER_HOST == "# User@Host: root[root] @ localhost []"

L_METADATA_1 == "# Thread_id: 5  Schema: test  QC_hit: No"

L_METADATA_2 == "# Query_time: 1.5  Lock_time: 0.0  Rows_sent: 1  Rows_examined: 10"

L_SET_TIMESTAMP == "SET timestamp=1672566000;"

L_SELECT == "SELECT 1;"

L_RAW_TIME == "# Time:   not a time "

L_SHORT_HOUR == "# Time: 230101  9:05:07"

L_NO_SUCH_DAY == "# Time: 230231 10:00:00"

Scenario ==
    <<L_TIME, L_USER_HOST, L_METADATA_1, L_METADATA_2, L_SET_TIMESTAMP, L_SELECT>>

CoreLines == {L_USER_HOST, L_METADATA_1, L_METADATA_2, L_SELECT}

AuxLines ==
    {L_TIME,
     "# User@Host: app[app] @  [10.0.0.7]",
     "# Query_time: 1.5  Lock_time: 0.0  Rows_sent: abc  Rows_examined: 10",
     "# Query_time: 1.2.3  Lock_time: 02.50  Rows_sent: 18446744073709551616  Rows_examined: 007",
     "# Rows_affected: 3  Bytes_sent: 120",
     "# Tmp_tables: 1  Tmp_disk_tables: 0  Tmp_table_sizes: 4096",
     "# Full_scan: Yes  Full_join: No  Tmp_table: Yes  Tmp_table_on_disk: No",
     "# Filesort: Yes  Filesort_on_disk: No  Merge_passes: 2  Priority_queue: No",
     "Tcp port: 3306  Unix socket: /run/mysqld.sock",
     "# User@Host: dba[dba] @ started with:",
     "# administrator command: Ping",
     "",
     "use mydb;",
     L_SET_TIMESTAMP}

TimesLines ==
    {L_TIME, L_RAW_TIME, L_SHORT_HOUR, L_NO_SUCH_DAY, L_USER_HOST, L_METADATA_1}

Lines == CoreLines \cup AuxLines \cup TimesLines

\* Kind, TimeOf and AssignedBy tabulated for the lines of the model
KindOf == [l \in Lines |-> Kind(l)]

TimeTable == [l \in {k \in Lines : KindOf[k] = "time"} |-> TimeOf(l)]

Assigned == [l \in Lines |-> AssignedBy(l)]

RECURSIVE AuxCount(_)
AuxCount(ls) ==
    IF ls = <<>> THEN 0
    ELSE (IF Head(ls) \in AuxLines THEN 1 ELSE 0) + AuxCount(Tail(ls))

(***************************************************************************)
(* The query buffers: those main can build from at most MaxLines lines of  *)
(* the model with at most MaxAux lines of AuxLines, the one of the         *)
(* scenario and, for write_to_csv on its own, the concatenations of at     *)
(* most MaxPieces pieces and the buffer of the round-trip property.        *)
(***************************************************************************)
RECURSIVE QueriesOf(_, _)
QueriesOf(n, a) ==
    IF n = 0 THEN {""}
    ELSE QueriesOf(n - 1, a)
         \cup {q \o line \o "\n" :
                  q \in QueriesOf(n - 1, a),
                  line \in {l \in CoreLines : KindOf[l] = "query"}}
         \cup IF a = 0 THEN {}
              ELSE {q \o line \o "\n" :
                       q \in QueriesOf(n - 1, a - 1),
                       line \in {l \in AuxLines : KindOf[l] = "query"}}

\* the query buffer made of the lines of query text among ls
RECURSIVE QueryOf(_)
QueryOf(ls) ==
    IF ls = <<>> THEN ""
    ELSE (IF Kind(Head(ls)) = "query" THEN Head(ls) \o "\n" ELSE "") \o QueryOf(Tail(ls))

MaxPieces == 3

Pieces == {"SET timestamp=123;", "SELECT 1;", "\n", "use my", "db;", "USE 'db';"}

RoundTripBuffer == "SET timestamp=123;\nuse mydb;\nSELECT 1;"

RECURSIVE Concats(_)
Concats(n) ==
    IF n = 0 THEN {""}
    ELSE LET shorter == Concats(n - 1)
         IN  shorter \cup {b \o piece : b \in shorter, piece \in Pieces}

Buffers == Concats(MaxPieces) \cup {RoundTripBuffer}

\* Cleanup tabulated for the query buffers of the model
CleanupOf ==
    [q \in QueriesOf(MaxLines, MaxAux) \cup {QueryOf(Scenario)} \cup Buffers
        |-> Cleanup(q)]

\* mutant of Record: the two statements are put last, after the columns of
\* the entry
RecordStatementsLast(e, c) ==
    <<e.time, e.user, e.host, e.thread_id, e.schema, e.qc_hit,
      e.query_time, e.lock_time, e.rows_sent, e.rows_examined, e.rows_affected,
      e.bytes_sent, e.tmp_tables, e.tmp_disk_tables, e.tmp_table_sizes, e.full_scan,
      e.full_join, e.tmp_table, e.tmp_table_on_disk, e.filesort, e.filesort_on_disk,
      e.merge_passes, e.priority_queue, c.remaining_query, c.set_timestamp_str,
      c.use_schema_str>>

\* wtr.write_record: the 26 values of entry e with the cleaned-up query c
Record(e, c) ==
    <<e.time, e.user, e.host, e.thread_id, e.schema, e.qc_hit,
      c.set_timestamp_str, c.use_schema_str, c.remaining_query,
      e.query_time, e.lock_time, e.rows_sent, e.rows_examined, e.rows_affected,
      e.bytes_sent, e.tmp_tables, e.tmp_disk_tables, e.tmp_table_sizes, e.full_scan,
      e.full_join, e.tmp_table, e.tmp_table_on_disk, e.filesort, e.filesort_on_disk,
      e.merge_passes, e.priority_queue>>

write_to_csv(e) == Record(e, CleanupOf[e.query])

(***************************************************************************)
(* The state of main.                                                      *)
(*   pc              "start", "loop", "done" (Ok(())) or "failed" (Err)    *)
(*   file            which file is read: "scenario", "any" or "times"      *)
(*   input           the lines read so far                                 *)
(*   current_entry, last_seen_time, entry_count                            *)
(*   out             the records handed to the CSV writer                  *)
(*   origin          history: the number of the connection-header line     *)
(*                   that started current_entry, 0 for the entry main      *)
(*                   starts with                                           *)
(*   written         history: the origin of each data row of out           *)
(***************************************************************************)
VARIABLES pc, file, input, current_entry, last_seen_time, entry_count, out, origin,
          written

vars == <<pc, file, input, current_entry, last_seen_time, entry_count, out, origin,
          written>>

Init ==
    /\ pc = "start"
    /\ file \in {"scenario", "any", "times"}
    /\ input = <<>>
    /\ current_entry = DefaultEntry
    /\ last_seen_time = ""
    /\ entry_count = 0
    /\ out = <<>>
    /\ origin = 0
    /\ written = <<>>

\* File::open succeeds; the header row is written and the loop is entered
Start ==
    /\ pc = "start"
    /\ pc' = "loop"
    /\ out' = <<HeaderRow>>
    /\ UNCHANGED <<file, input, current_entry, last_seen_time, entry_count, origin,
                   written>>

\* mutant of OpenFails: the header row is written before the file is opened
OpenFailsAfterHeader ==
    /\ pc = "start"
    /\ pc' = "failed"
    /\ out' = <<HeaderRow>>
    /\ UNCHANGED <<file, input, current_entry, last_seen_time, entry_count, origin,
                   written>>

\* File::open(&args.input)? fails: main returns the error
OpenFails ==
    /\ pc = "start"
    /\ pc' = "failed"
    /\ UNCHANGED <<file, input, current_entry, last_seen_time, entry_count, out,
                   origin, written>>

\* reader.lines() yields line
Reads(line) ==
    /\ pc = "loop"
    /\ IF file = "scenario"
       THEN Len(input) < Len(Scenario) /\ line = Scenario[Len(input) + 1]
       ELSE IF file = "times"
       THEN Len(input) < MaxLines /\ line \in TimesLines
       ELSE /\ Len(input) < MaxLines
            /\ line \in CoreLines \cup AuxLines
            /\ line \in AuxLines => AuxCount(input) < MaxAux
    /\ input' = Append(input, line)

\* mutant of Flush: the row is put in front of the rows written before
FlushInFront ==
    IF is_valid(current_entry)
    THEN /\ out' = <<out[1], write_to_csv(current_entry)>> \o Tail(out)
         /\ entry_count' = entry_count + 1
         /\ written' = <<origin>> \o written
    ELSE UNCHANGED <<out, entry_count, written>>

\* if current_entry.is_valid() { write_to_csv; entry_count += 1 }
Flush ==
    IF is_valid(current_entry)
    THEN /\ out' = Append(out, write_to_csv(current_entry))
         /\ entry_count' = entry_count + 1
         /\ written' = Append(written, origin)
    ELSE UNCHANGED <<out, entry_count, written>>

Skipped ==
    \E line \in Lines :
        /\ KindOf[line] = "skipped"
        /\ Reads(line)
        /\ UNCHANGED <<pc, file, current_entry, last_seen_time, entry_count, out,
                       origin, written>>

\* mutant of TimeHeader: the time is also put in the entry in progress
TimeHeaderStampsEntry ==
    \E line \in Lines :
        /\ KindOf[line] = "time"
        /\ Reads(line)
        /\ last_seen_time' = TimeTable[line]
        /\ current_entry' = [current_entry EXCEPT !.time = TimeTable[line]]
        /\ UNCHANGED <<pc, file, entry_count, out, origin, written>>

TimeHeader ==
    \E line \in Lines :
        /\ KindOf[line] = "time"
        /\ Reads(line)
        /\ last_seen_time' = TimeTable[line]
        /\ UNCHANGED <<pc, file, current_entry, entry_count, out, origin, written>>

\* mutant of UserHost: the entry in progress is not replaced
UserHostKeepsEntry ==
    \E line \in Lines :
        /\ KindOf[line] = "user_host"
        /\ Reads(line)
        /\ Flush
        /\ current_entry' = Assign(current_entry, Assigned[line])
        /\ UNCHANGED <<pc, file, last_seen_time, origin>>

\* mutant of UserHost: the new entry keeps the fields of the one before
UserHostKeepsFields ==
    \E line \in Lines :
        /\ KindOf[line] = "user_host"
        /\ Reads(line)
        /\ Flush
        /\ current_entry' =
               Assign([current_entry EXCEPT !.time = last_seen_time], Assigned[line])
        /\ origin' = Len(input) + 1
        /\ UNCHANGED <<pc, file, last_seen_time>>

\* mutant of UserHost: the new entry keeps the query text read so far
UserHostKeepsQuery ==
    \E line \in Lines :
        /\ KindOf[line] = "user_host"
        /\ Reads(line)
        /\ Flush
        /\ current_entry' =
               Assign([NewEntry(last_seen_time) EXCEPT !.query = current_entry.query],
                      Assigned[line])
        /\ origin' = Len(input) + 1
        /\ UNCHANGED <<pc, file, last_seen_time>>

\* a connection header: the entry in progress is flushed and a new one started
UserHost ==
    \E line \in Lines :
        /\ KindOf[line] = "user_host"
        /\ Reads(line)
        /\ Flush
        /\ current_entry' = Assign(NewEntry(last_seen_time), Assigned[line])
        /\ origin' = Len(input) + 1
        /\ UNCHANGED <<pc, file, last_seen_time>>

\* mutant of Metadata: a metadata header before any connection header is
\* dropped
MetadataNeedsHeader(kind) ==
    \E line \in Lines :
        /\ KindOf[line] = kind
        /\ Reads(line)
        /\ current_entry' =
               IF origin > 0 THEN Assign(current_entry, Assigned[line]) ELSE current_entry
        /\ UNCHANGED <<pc, file, last_seen_time, entry_count, out, origin, written>>

\* a metadata branch: the captured fields are merged into current_entry
Metadata(kind) ==
    \E line \in Lines :
        /\ KindOf[line] = kind
        /\ Reads(line)
        /\ current_entry' = Assign(current_entry, Assigned[line])
        /\ UNCHANGED <<pc, file, last_seen_time, entry_count, out, origin, written>>

ThreadId == Metadata("metadata_1")

QueryTime == Metadata("metadata_2")

RowsAffected == Metadata("metadata_3")

TmpTables == Metadata("metadata_4")

FullScan == Metadata("metadata_5")

Filesort == Metadata("metadata_6")

\* a line of query text
QueryText ==
    \E line \in Lines :
        /\ KindOf[line] = "query"
        /\ Reads(line)
        /\ current_entry' = PushQuery(current_entry, line)
        /\ UNCHANGED <<pc, file, last_seen_time, entry_count, out, origin, written>>

\* a blank line, or a line starting with # that no pattern matches
Ignored ==
    \E line \in Lines :
        /\ KindOf[line] = "ignored"
        /\ Reads(line)
        /\ UNCHANGED <<pc, file, current_entry, last_seen_time, entry_count, out,
                       origin, written>>

\* mutant of Finish: the entry in progress is not flushed
FinishWithoutFlush ==
    /\ pc = "loop"
    /\ file = "scenario" => Len(input) = Len(Scenario)
    /\ pc' = "done"
    /\ UNCHANGED <<file, input, current_entry, last_seen_time, entry_count, out, origin,
                   written>>

\* end of input: the final flush, wtr.flush() and Ok(())
Finish ==
    /\ pc = "loop"
    /\ file = "scenario" => Len(input) = Len(Scenario)
    /\ Flush
    /\ pc' = "done"
    /\ UNCHANGED <<file, input, current_entry, last_seen_time, origin>>

Next ==
    \/ Start
    \/ OpenFails
    \/ Skipped
    \/ TimeHeader
    \/ UserHost
    \/ ThreadId
    \/ QueryTime
    \/ RowsAffected
    \/ TmpTables
    \/ FullScan
    \/ Filesort
    \/ QueryText
    \/ Ignored
    \/ Finish

Spec == Init /\ [][Next]_vars

\* the loop runs to the end of the input: every step of main is taken
FairSpec == Spec /\ WF_vars(Next)

TypeOK ==
    /\ pc \in {"start", "loop", "done", "failed"}
    /\ Len(written) = entry_count
    /\ pc \in {"loop", "done"} => Len(out) = 1 + entry_count

(***************************************************************************)
(* write_to_csv on its own: an entry with any query buffer of Buffers is   *)
(* flushed.                                                                *)
(***************************************************************************)
CleanupInit ==
    /\ pc = "loop"
    /\ file = "any"
    /\ input = <<>>
    /\ \E q \in Buffers :
           current_entry = [DefaultEntry EXCEPT !.thread_id = "1", !.query = q]
    /\ last_seen_time = ""
    /\ entry_count = 0
    /\ out = <<HeaderRow>>
    /\ origin = 0
    /\ written = <<>>

CleanupSpec == CleanupInit /\ [][Finish]_vars

(***************************************************************************)
(* What the input says, read off the lines alone.                          *)
(***************************************************************************)
\* line i of the input is processed as a connection header
IsConn(i) == KindOf[input[i]] = "user_host"

ConnLines == {i \in 1..Len(input) : IsConn(i)}

\* the lines of the record started at line o (0: before any connection
\* header): up to the next connection header or the end of the input
RECURSIVE SpanEnd(_)
SpanEnd(o) ==
    IF o >= Len(input) THEN Len(input)
    ELSE IF IsConn(o + 1) THEN o
    ELSE SpanEnd(o + 1)

Span(o) == (o + 1)..SpanEnd(o)

SpanHas(o, kind) == \E i \in Span(o) : KindOf[input[i]] = kind

\* the value set by the last time header before line n ("" if none)
StickyBefore(n) ==
    LET ts == {i \in 1..(n - 1) : KindOf[input[i]] = "time"}
    IN  IF ts = {} THEN ""
        ELSE TimeTable[input[CHOOSE i \in ts : \A k \in ts : k <= i]]

\* the data rows written so far
Rows == IF out = <<>> THEN <<>> ELSE Tail(out)

\* the step reads a connection header, or is the end of the input
Finishes ==
    \/ Len(input') = Len(input) + 1 /\ KindOf[input'[Len(input')]] = "user_host"
    \/ pc = "loop" /\ pc' = "done"

(***************************************************************************)
(* C1.  When the run ends, the number of data rows equals the number of    *)
(* connection-header lines whose record has a thread id when it is         *)
(* finished, that is, whose lines up to the next connection header or the  *)
(* end of the input include a thread-id line.                              *)
(***************************************************************************)
C1_RowsEqualValidHeaders ==
    pc = "done" =>
        Len(Rows) = Cardinality({i \in ConnLines : SpanHas(i, "metadata_1")})

(***************************************************************************)
(* C2.  Every record is written at most once: no two data rows come from   *)
(* the same record.                                                        *)
(***************************************************************************)
C2_WrittenAtMostOnce ==
    \A i, j \in 1..Len(written) : i # j => written[i] # written[j]

\* a record was flushed by a connection header and another at the end
C2_Witness ==
    /\ pc = "done"
    /\ Len(written) >= 2
    /\ written[Len(written)] = origin

(***************************************************************************)
(* C3.  The run terminates, and when it completes successfully a valid     *)
(* record in progress at the end of the input is the last data row, and    *)
(* every connection header whose record is valid has its row.              *)
(***************************************************************************)
C3_FinalFlush ==
    <>(\/ pc = "failed"
       \/ /\ pc = "done"
          /\ is_valid(current_entry) =>
                 /\ Len(Rows) > 0
                 /\ out[Len(out)] = write_to_csv(current_entry)
                 /\ written[Len(written)] = origin
          /\ \A i \in ConnLines :
                 SpanHas(i, "metadata_1") => \E k \in 1..Len(written) : written[k] = i)

\* the run has ended with a valid record, started by a connection header
C3_Witness ==
    /\ pc = "done"
    /\ origin > 0
    /\ is_valid(current_entry)
    /\ out[Len(out)] = write_to_csv(current_entry)

(***************************************************************************)
(* C4.  A record is written iff its thread id is non-empty when it is      *)
(* finished: every data row has a thread id, and a step that finishes a    *)
(* record (a connection header, the end of the input) appends its row when *)
(* the thread id is non-empty and leaves the output as it is otherwise.    *)
(***************************************************************************)
C4_WrittenIffValid ==
    /\ [](\A i \in 1..Len(Rows) : Col(Rows[i], "thread_id") # "")
    /\ [][Finishes =>
            IF current_entry.thread_id # ""
            THEN /\ Len(out') = Len(out) + 1
                 /\ SubSeq(out', 1, Len(out)) = out
                 /\ Col(out'[Len(out')], "thread_id") = current_entry.thread_id
            ELSE out' = out]_vars

\* a row was written, and the record of some connection header, which had
\* query text but no thread id, was dropped
C4_Witness ==
    /\ pc = "done"
    /\ Len(Rows) >= 1
    /\ \E i \in ConnLines : ~SpanHas(i, "metadata_1") /\ SpanHas(i, "query")

(***************************************************************************)
(* C5.  The time of every record started by a connection header is the     *)
(* value set by the last time header before that connection header (empty  *)
(* if none), in the entry in progress and in its row; the sticky value     *)
(* itself is the one set by the last time header read, flushes or not.     *)
(***************************************************************************)
C5_StickyTime ==
    /\ last_seen_time = StickyBefore(Len(input) + 1)
    /\ origin > 0 => current_entry.time = StickyBefore(origin)
    /\ \A i \in 1..Len(written) :
           written[i] > 0 => Col(Rows[i], "time") = StickyBefore(written[i])

\* the row of a connection header has the time of a time header read before
\* the connection header of the record before it
C5_Witness ==
    \E i \in 1..Len(written) :
        /\ written[i] > 0
        /\ Col(Rows[i], "time") # ""
        /\ \E k \in ConnLines :
               /\ k < written[i]
               /\ \A t \in (k + 1)..(written[i] - 1) : KindOf[input[t]] # "time"

(***************************************************************************)
(* C6.  No field leaks from one record to the next: in the entry started   *)
(* by a connection header and in its row, the fields of a metadata header  *)
(* (or the query fields) that does not occur among the lines of the record *)
(* are 0 for numbers and empty for strings.                                *)
(***************************************************************************)
NumericCols ==
    {"query_time", "lock_time", "rows_sent", "rows_examined", "rows_affected",
     "bytes_sent", "tmp_tables", "tmp_disk_tables", "tmp_table_sizes", "merge_passes"}

ColsOf(kind) ==
    CASE kind = "metadata_1" -> {"thread_id", "schema", "qc_hit"}
      [] kind = "metadata_2" -> {"query_time", "lock_time", "rows_sent", "rows_examined"}
      [] kind = "metadata_3" -> {"rows_affected", "bytes_sent"}
      [] kind = "metadata_4" -> {"tmp_tables", "tmp_disk_tables", "tmp_table_sizes"}
      [] kind = "metadata_5" -> {"full_scan", "full_join", "tmp_table", "tmp_table_on_disk"}
      [] kind = "metadata_6" -> {"filesort", "filesort_on_disk", "merge_passes",
                                 "priority_queue"}
      [] kind = "query"      -> {"set_timestamp", "use_schema", "query"}

DataKinds ==
    {"metadata_1", "metadata_2", "metadata_3", "metadata_4", "metadata_5",
     "metadata_6", "query"}

IsDefault(col, value) == value = IF col \in NumericCols THEN "0" ELSE ""

C6_NoLeak ==
    /\ \A i \in 1..Len(written) :
           written[i] > 0 =>
               \A kind \in DataKinds :
                   ~SpanHas(written[i], kind) =>
                       \A col \in ColsOf(kind) : IsDefault(col, Col(Rows[i], col))
    /\ origin > 0 =>
           \A kind \in DataKinds :
               ~SpanHas(origin, kind) =>
                   \A col \in ColsOf(kind) \cap DOMAIN current_entry :
                       IsDefault(col, current_entry[col])

\* the record of a connection header had a rows_sent, and the entry started
\* by the next connection header has none
C6_Witness ==
    /\ Len(written) >= 1
    /\ written[1] > 0
    /\ origin > written[1]
    /\ Col(Rows[1], "rows_sent") # "0"
    /\ current_entry.rows_sent = "0"

(***************************************************************************)
(* C7.  An input without connection-header lines gives no data row: the    *)
(* output is the header row only.                                          *)
(***************************************************************************)
C7_NoHeaderNoRow ==
    (/\ pc = "done"
     /\ \A i \in 1..Len(input) : ~StartsWith(input[i], "# User@Host:"))
        => out = <<HeaderRow>>

(***************************************************************************)
(* C8.  A query-time line with a malformed number does not abort the run,  *)
(* and the row of its record has 0 in the malformed field (when that line  *)
(* is the last query-time line of the record).                             *)
(***************************************************************************)
\* the query-time lines of the model with a malformed number, and the
\* fields the malformed numbers are for
MalformedCols ==
    [l \in {"# Query_time: 1.5  Lock_time: 0.0  Rows_sent: abc  Rows_examined: 10",
            "# Query_time: 1.2.3  Lock_time: 02.50  Rows_sent: 18446744073709551616  Rows_examined: 007"}
       |-> IF l = "# Query_time: 1.5  Lock_time: 0.0  Rows_sent: abc  Rows_examined: 10"
           THEN {"rows_sent"} ELSE {"query_time", "rows_sent"}]

\* the last line of the record started at line o that reads "# Query_time:", 0 if none
LastQueryTimeLine(o) ==
    LET qs == {i \in Span(o) : StartsWith(input[i], "# Query_time:")}
    IN  IF qs = {} THEN 0 ELSE CHOOSE i \in qs : \A k \in qs : k <= i

C8_MalformedIsZero ==
    /\ pc # "failed" \/ input = <<>>
    /\ \A i \in 1..Len(written) :
           LET o == written[i]
               m == LastQueryTimeLine(o)
           IN  (o > 0 /\ m > 0 /\ input[m] \in DOMAIN MalformedCols) =>
                   \A col \in MalformedCols[input[m]] : Col(Rows[i], col) = "0"

(***************************************************************************)
(* C9.  The six-line scenario gives exactly one data row, with the values  *)
(* of the specification.  As stated, query is "SELECT 1;"; as amended, it  *)
(* is that text followed by the line separator.                            *)
(***************************************************************************)
ScenarioRow(query) ==
    /\ Len(Rows) = 1
    /\ Col(Rows[1], "time") = "2023-01-01 10:00:00"
    /\ Col(Rows[1], "user") = "root"
    /\ Col(Rows[1], "host") = "localhost"
    /\ Col(Rows[1], "thread_id") = "5"
    /\ Col(Rows[1], "schema") = "test"
    /\ Col(Rows[1], "qc_hit") = "No"
    /\ Col(Rows[1], "set_timestamp") = "SET timestamp=1672566000;"
    /\ Col(Rows[1], "use_schema") = ""
    /\ Col(Rows[1], "query") = query
    /\ Col(Rows[1], "query_time") = "1.5"
    /\ Col(Rows[1], "rows_sent") = "1"
    /\ Col(Rows[1], "rows_examined") = "10"

C9_ScenarioAsStated == (file = "scenario" /\ pc = "done") => ScenarioRow("SELECT 1;")

C9_Scenario == (file = "scenario" /\ pc = "done") => ScenarioRow("SELECT 1;\n")

C9_Witness == file = "scenario" /\ pc = "done" /\ input = Scenario /\ Len(Rows) = 1

(***************************************************************************)
(* C10.  For the query buffer "SET timestamp=123;\nuse mydb;\nSELECT 1;"   *)
(* the row has set_timestamp "SET timestamp=123;", use_schema "use mydb;"  *)
(* and query "SELECT 1;".                                                  *)
(***************************************************************************)
C10_RoundTrip ==
    (pc = "done" /\ current_entry.query = RoundTripBuffer) =>
        /\ Col(Rows[1], "set_timestamp") = "SET timestamp=123;"
        /\ Col(Rows[1], "use_schema") = "use mydb;"
        /\ Col(Rows[1], "query") = "SELECT 1;"

C10_Witness ==
    /\ pc = "done"
    /\ current_entry.query = RoundTripBuffer
    /\ Len(Rows) = 1

(***************************************************************************)
(* C11.  Cleanup is idempotent: the cleanup of the query field of a row    *)
(* extracts no SET statement and no use statement, and leaves the text as  *)
(* it is.                                                                  *)
(***************************************************************************)
C11_CleanupIdempotent ==
    (pc = "done" /\ Len(Rows) = 1) =>
        Cleanup(Col(Rows[1], "query")) =
            [set_timestamp_str |-> "", use_schema_str |-> "",
             remaining_query |-> Col(Rows[1], "query")]

(***************************************************************************)
(* C12.  Cleanup loses no content: without its white space, the query      *)
(* buffer is the query field with the set_timestamp field and the          *)
(* use_schema field put back in at some two places, each once.             *)
(***************************************************************************)
\* the text without its white space
RECURSIVE NonSpace(_)
NonSpace(s) ==
    IF s = "" THEN ""
    ELSE (IF Ch(s, 1) \in SpaceSet THEN "" ELSE Ch(s, 1)) \o NonSpace(SubSeq(s, 2, Len(s)))

\* b is r with x put in at some place and y at the same place or further on
PutBack(b, r, x, y) ==
    \E i \in 0..Len(r) :
        \E j \in i..Len(r) :
            b = SubSeq(r, 1, i) \o x \o SubSeq(r, i + 1, j) \o y \o SubSeq(r, j + 1, Len(r))

C12_NoContentLost ==
    (pc = "done" /\ Len(Rows) = 1) =>
        LET b == NonSpace(current_entry.query)
            r == NonSpace(Col(Rows[1], "query"))
            s == NonSpace(Col(Rows[1], "set_timestamp"))
            u == NonSpace(Col(Rows[1], "use_schema"))
        IN  PutBack(b, r, s, u) \/ PutBack(b, r, u, s)

(***************************************************************************)
(* C13.  Once the loop is entered the output starts with the header row,   *)
(* which is there before a line is read and occurs once; every data row    *)
(* has as many fields as the header; and a flush puts each field of the    *)
(* record in the column of its name (the query field holds the query       *)
(* without the two statements, which have their own columns).              *)
(***************************************************************************)
\* the column names of the specification, in order
Columns ==
    <<"time", "user", "host", "thread_id", "schema", "qc_hit", "set_timestamp",
      "use_schema", "query", "query_time", "lock_time", "rows_sent", "rows_examined",
      "rows_affected", "bytes_sent", "tmp_tables", "tmp_disk_tables",
      "tmp_table_sizes", "full_scan", "full_join", "tmp_table", "tmp_table_on_disk",
      "filesort", "filesort_on_disk", "merge_passes", "priority_queue">>

\* the position of a column in the order of the specification
ColumnOf(name) == CHOOSE i \in 1..Len(Columns) : Columns[i] = name

C13_HeaderAndColumns ==
    /\ [](/\ pc = "start" => out = <<>> /\ input = <<>>
          /\ pc \in {"loop", "done"} =>
                 /\ Len(out) >= 1
                 /\ out[1] = Columns
                 /\ \A i \in 2..Len(out) : Len(out[i]) = Len(Columns) /\ out[i] # Columns)
    /\ [][(Finishes /\ is_valid(current_entry)) =>
            /\ \A f \in (DOMAIN current_entry) \ {"query"} :
                   out'[Len(out')][ColumnOf(f)] = current_entry[f]
            /\ out'[Len(out')][ColumnOf("set_timestamp")] =
                   CleanupOf[current_entry.query].set_timestamp_str
            /\ out'[Len(out')][ColumnOf("use_schema")] =
                   CleanupOf[current_entry.query].use_schema_str
            /\ out'[Len(out')][ColumnOf("query")] =
                   CleanupOf[current_entry.query].remaining_query]_vars

\* a row with a value in a column of each third of the layout was written
C13_Witness ==
    /\ Len(out) >= 2
    /\ out[2][ColumnOf("user")] = "root"
    /\ out[2][ColumnOf("query")] # ""
    /\ out[2][ColumnOf("rows_examined")] = "10"

(***************************************************************************)
(* C14.  When the input file cannot be opened the run ends in failure at   *)
(* once: no line has been read, nothing has been written, and no step      *)
(* follows the failure, so the final flush and Ok(()) are never reached.   *)
(***************************************************************************)
C14_OpenFailure ==
    /\ [](pc = "failed" =>
              /\ input = <<>>
              /\ out = <<>>
              /\ entry_count = 0
              /\ current_entry = DefaultEntry)
    /\ [][pc # "failed"]_vars
    /\ [][pc' = "failed" => pc = "start"]_vars

\* the open has failed
C14_Witness == pc = "failed"

(***************************************************************************)
(* C15.  A step that reads a time header (a line "# Time: ..." that no     *)
(* skip pattern matches) leaves the entry in progress and the rows as they *)
(* are; so the time of the entry in progress is the one it was started     *)
(* with, whatever time headers came after its connection header.           *)
(***************************************************************************)
\* the lines of the model that are time headers, read off their text
TimeLines ==
    {l \in Lines :
        /\ StartsWith(l, "# Time: ")
        /\ ~Find(RE_SKIPPED_1, l).ok
        /\ \A a \in 1..Len(RE_SKIPPED_2) : ~MatchAt(RE_SKIPPED_2[a], l).ok}

\* the step reads a time header
ReadsTime == Len(input') = Len(input) + 1 /\ input'[Len(input')] \in TimeLines

C15_TimeHeaderFrame ==
    /\ [][ReadsTime =>
            /\ current_entry' = current_entry
            /\ out' = out
            /\ entry_count' = entry_count
            /\ pc' = pc]_vars
    /\ [](\A n \in 1..Len(input) :
              (n > origin /\ origin > 0 /\ input[n] \in TimeLines) =>
                  current_entry.time = StickyBefore(origin))

\* a time header was read after the thread id of a record, whose time is
\* not the new sticky time
C15_Witness ==
    /\ input # <<>>
    /\ input[Len(input)] \in TimeLines
    /\ origin > 0
    /\ current_entry.thread_id # ""
    /\ last_seen_time # current_entry.time

(***************************************************************************)
(* C16.  The rows are in the order of their connection headers: the row of *)
(* an earlier connection header is before the row of a later one, the rows *)
(* are those of records finished already, each row has the user of its     *)
(* connection header, and at the end the row of the last connection header *)
(* (if its record is valid) is the last row.                               *)
(***************************************************************************)
C16_RowsInInputOrder ==
    /\ \A i, j \in 1..Len(written) : i < j => written[i] < written[j]
    /\ \A i \in 1..Len(written) :
           /\ written[i] <= origin
           /\ pc = "loop" => written[i] < origin
           /\ written[i] > 0 =>
                  /\ written[i] \in ConnLines
                  /\ Col(Rows[i], "user") = Assigned[input[written[i]]].user
                  /\ Col(Rows[i], "host") = Assigned[input[written[i]]].host
    /\ (pc = "done" /\ origin > 0 /\ is_valid(current_entry)) =>
           written[Len(written)] = origin

\* two connection headers of different users have their rows, in order
C16_Witness ==
    /\ pc = "done"
    /\ Len(written) = 2
    /\ written[1] > 0
    /\ Col(Rows[1], "user") # Col(Rows[2], "user")

(***************************************************************************)
(* C17.  A step that reads a line without data leaves the entry in         *)
(* progress, the sticky time and the rows as they are.  The lines without  *)
(* data, read off their text: those a skip pattern matches (whatever else  *)
(* they look like), the blank ones, and those starting with # that have    *)
(* the shape of no header.                                                 *)
(***************************************************************************)
\* a skip pattern matches the line
Noise(l) ==
    \/ Find(RE_SKIPPED_1, l).ok
    \/ \E a \in 1..Len(RE_SKIPPED_2) : MatchAt(RE_SKIPPED_2[a], l).ok

\* the line has the shape of a header
HeaderShaped(l) ==
    \E re \in {RE_TIME, RE_USER_HOST, RE_METADATA_1, RE_METADATA_2, RE_METADATA_3,
               RE_METADATA_4, RE_METADATA_5, RE_METADATA_6} : MatchAt(re, l).ok

NoDataLines ==
    {l \in Lines :
        \/ Noise(l)
        \/ Trim(l) = ""
        \/ StartsWith(l, "#") /\ ~HeaderShaped(l)}

\* the step reads a line without data
ReadsNoData == Len(input') = Len(input) + 1 /\ input'[Len(input')] \in NoDataLines

C17_NoDataFrame ==
    [][ReadsNoData =>
          /\ current_entry' = current_entry
          /\ last_seen_time' = last_seen_time
          /\ out' = out
          /\ entry_count' = entry_count
          /\ pc' = pc]_vars

\* a line that a skip pattern matches and that has the shape of a
\* connection header was read while a valid record was in progress
C17_Witness ==
    /\ input # <<>>
    /\ Noise(input[Len(input)])
    /\ HeaderShaped(input[Len(input)])
    /\ origin > 0
    /\ is_valid(current_entry)
    /\ Len(Rows) = 0

(***************************************************************************)
(* C18.  Before any connection header, the entry in progress is the        *)
(* default record with the fields of the metadata headers read so far: its *)
(* time, user and host are empty, the fields of each kind of metadata      *)
(* header are those of the last header of that kind, and of no header of   *)
(* that kind the default ones; the run has not failed, and goes on.        *)
(***************************************************************************)
MetadataKinds ==
    {"metadata_1", "metadata_2", "metadata_3", "metadata_4", "metadata_5", "metadata_6"}

\* the last line of kind among the first n lines of the input, 0 if none
LastOfKind(kind, n) ==
    LET ls == {i \in 1..n : KindOf[input[i]] = kind}
    IN  IF ls = {} THEN 0 ELSE CHOOSE i \in ls : \A k \in ls : k <= i

C18_MetadataBeforeHeader ==
    origin = 0 =>
        /\ current_entry.time = "" /\ current_entry.user = "" /\ current_entry.host = ""
        /\ \A kind \in MetadataKinds :
               LET m == LastOfKind(kind, Len(input))
               IN  \A col \in ColsOf(kind) :
                       current_entry[col] =
                           IF m = 0 THEN DefaultEntry[col] ELSE Assigned[input[m]][col]
        /\ input # <<>> => pc \in {"loop", "done"}
        /\ (pc = "loop" /\ file = "any" /\ Len(input) < MaxLines) => ENABLED QueryText

\* a thread-id line and then a query-time line were read before any
\* connection header
C18_Witness ==
    /\ origin = 0
    /\ Len(input) >= 2
    /\ KindOf[input[1]] = "metadata_1"
    /\ current_entry.thread_id = "5"
    /\ current_entry.rows_examined = "10"

(***************************************************************************)
(* C19.  The query buffer of a record started by a connection header is    *)
(* the body lines among the lines of the record, in order, each followed   *)
(* by a line separator: in the entry in progress, and at its flush, where  *)
(* the three query columns of its row are the cleanup of that text.  The   *)
(* body lines, read off their text: not blank, not starting with #, and    *)
(* matched by no skip pattern.                                             *)
(***************************************************************************)
BodyLines == {l \in Lines : ~StartsWith(l, "#") /\ Trim(l) # "" /\ ~Noise(l)}

\* the body lines among lines a..b of the input, each with its separator
RECURSIVE BodyText(_, _)
BodyText(a, b) ==
    IF a > b THEN ""
    ELSE (IF input[a] \in BodyLines THEN input[a] \o "\n" ELSE "") \o BodyText(a + 1, b)

C19_QueryBuffer ==
    /\ origin > 0 => current_entry.query = BodyText(origin + 1, Len(input))
    /\ \A i \in 1..Len(written) :
           written[i] > 0 =>
               LET c == CleanupOf[BodyText(written[i] + 1, SpanEnd(written[i]))]
               IN  /\ Col(Rows[i], "set_timestamp") = c.set_timestamp_str
                   /\ Col(Rows[i], "use_schema") = c.use_schema_str
                   /\ Col(Rows[i], "query") = c.remaining_query

\* a body line came before the connection header of a record, whose row
\* has the text of the body line after its thread-id line
C19_Witness ==
    /\ pc = "done"
    /\ Len(written) = 1
    /\ written[1] > 1
    /\ \E n \in 1..(written[1] - 1) : input[n] \in BodyLines
    /\ \E n \in (written[1] + 2)..Len(input) :
           input[n] \in BodyLines /\ KindOf[input[n - 1]] = "metadata_1"
    /\ Col(Rows[1], "query") # ""

(***************************************************************************)
(* C20.  A step that reads a time header sets the sticky time, whatever it *)
(* was, to the normalized time when the text after "# Time: " is a time of *)
(* the format, and to that text, trimmed, when it is not; the run goes on. *)
(***************************************************************************)
\* the sticky time that the specification gives for the time headers of
\* the model
StickyFor ==
    [l \in {L_TIME, L_SHORT_HOUR, L_RAW_TIME, L_NO_SUCH_DAY} |->
        CASE l = L_TIME        -> "2023-01-01 10:00:00"
          [] l = L_SHORT_HOUR  -> "2023-01-01 09:05:07"
          [] l = L_RAW_TIME    -> "not a time"
          [] l = L_NO_SUCH_DAY -> "230231 10:00:00"]

C20_TimeHeaderSetsSticky ==
    /\ [](TimeLines = DOMAIN StickyFor)
    /\ [][ReadsTime =>
            /\ last_seen_time' = StickyFor[input'[Len(input')]]
            /\ pc' = "loop"]_vars

\* a time header that does not parse was read after one that does, and
\* the other way round
C20_Witness ==
    /\ Len(input) >= 3
    /\ input[1] = L_SHORT_HOUR
    /\ input[2] = L_NO_SUCH_DAY
    /\ input[3] = L_TIME
    /\ last_seen_time = "2023-01-01 10:00:00"

=============================================================================
